---- MODULE Spec2Model ----
(***************************************************************************)
(* PiHome: the stoppable loop process (common/stoppableprocess.py) and its *)
(* two workers, SensorsManager (agents/sensorsmanager.py) and              *)
(* NetworkPresenceDetector (agents/presencedetector.py), publishing        *)
(* through MQTTClient.                                                     *)
(*                                                                         *)
(* One process runs run() in its main thread; SIGTERM/SIGINT handlers run  *)
(* _shutdown between two statements of that thread; the GPIO library runs  *)
(* _post_event in its own callback thread.  Time is counted in seconds:    *)
(* the action Tick lets one second pass and is disabled while a blocked    *)
(* call (Lock.acquire with timeout, Event.wait) is due to return.          *)
(*                                                                         *)
(* multiprocessing.Lock is a semaphore: it has no owner and no queue, so   *)
(* when it is free any thread that asks for it may be the one to get it.   *)
(* The edge callbacks run one at a time; the library's bouncetime only     *)
(* spaces the edges out and is not modelled.  Counters of run() history    *)
(* (setupCalls ... hist) record what happened and steer nothing.           *)
(***************************************************************************)
EXTENDS Integers, Sequences, FiniteSets, TLC

\* ------------------------------------------------------------------ bounds
MaxTicks == 2          \* steps (_loop calls) started in one run
MaxInterval == 1       \* largest loop interval tried (seconds)
NumChannels == 2       \* GPIO channels in the _events dictionary
NumPersons == 2        \* entries of _persons_list
MaxAttempts == 2       \* largest max_detection_attempts tried
MaxCalls == 5          \* calls made on an MQTTClient driven on its own
MaxLevels == 3         \* topic levels of the topics the matcher is tried on
MaxRegLevels == 2      \* topic levels of the sub-topics registered
MaxCallbacks == 2      \* entries of _callbacks
MaxSubscriptions == 2  \* entries of EventManager._topics_and_actions

\* ------------------------------------------------------- program constants
SampleLockTimeout == 5     \* _post_samples: acquire(timeout=5)
EventLockTimeout == 20     \* _post_event: acquire(timeout=20)
\* a teardown that waits longer than both other acquirers
TeardownLockTimeout_longest == EventLockTimeout + SampleLockTimeout

TeardownLockTimeout == 10  \* _teardown: acquire(timeout=10)
RetryWait == 3             \* _detect_person_presence: self._wait(3)

\* the sensors the loader can build, in list order, and the samples a
\* successful read of each appends
Sensors == <<"dht", "bmp">>
SamplesOf(s) == IF s = "dht" THEN <<"temperature", "humidity">> ELSE <<"pressure">>

Channels == 1..NumChannels
Persons == 1..NumPersons

VARIABLES
  worker,          \* which subclass of StoppableLoopProcess runs
  client,          \* which MQTTClient class the worker was given
  loop_interval,   \* _loop_interval
  notify_always,   \* _notify_always
  max_attempts,    \* _max_detection_attempts
  pc,              \* position of the main thread in run()
  stop_looping,    \* _stop_looping (threading.Event flag)
  connected,       \* MQTTClient._connected
  locked,          \* SensorsManager._lock is taken
  holder,          \* the thread that took _lock last ("none" once released)
  registered,      \* channels with an edge callback (GPIO.add_event_detect)
  budget,          \* seconds left of the main thread's acquire timeout
  waitLeft,        \* seconds left of the main thread's Event.wait timeout
  samples,         \* _sample: the batch collected in this step
  sidx,            \* _post_samples: index of the next sample to publish
  epc,             \* position of the GPIO callback thread in _post_event
  echan,           \* channel argument of the running _post_event
  ebudget,         \* seconds left of the callback thread's acquire timeout
  pidx,            \* _loop (presence): index in _persons_list
  attempts,        \* _detect_person_presence: attempts
  detected,        \* _detect_person_presence: presence_detected
  persons_status,  \* _persons_status
  \* history
  setupCalls, teardownCalls, stepsStarted, stepsDone,
  armedAt,         \* where the main thread was when the stop signal was first armed
  hist,            \* record of what has been observed so far
  \* MQTTClient subscriptions
  callbacks,       \* MQTTClient._callbacks, in the dictionary's order
  topic,           \* _topic_to_regex: its argument
  regex_topic,     \* _topic_to_regex: the compiled expression
  message,         \* the topic of the message the expression is tried on
  matched,         \* what regex.match(message.topic) returned
  \* EventManager
  listening,          \* EventManager._listening
  topics_and_actions  \* EventManager._topics_and_actions

vars == <<worker, client, loop_interval, notify_always, max_attempts, pc,
          stop_looping, connected, locked, holder, registered, budget, waitLeft,
          samples, sidx, epc, echan, ebudget, pidx, attempts, detected,
          persons_status, setupCalls, teardownCalls, stepsStarted, stepsDone,
          armedAt, hist, callbacks, topic, regex_topic, message, matched,
          listening, topics_and_actions>>

mqttVars == <<callbacks, topic, regex_topic, message, matched>>
eventVars == <<listening, topics_and_actions>>
config == <<worker, client, loop_interval, notify_always, max_attempts>>
presenceVars == <<pidx, attempts, detected, persons_status>>
gpioVars == <<epc, echan, ebudget>>
counts == <<setupCalls, teardownCalls, stepsStarted, stepsDone>>

StepPcs == {"sample", "post_acquire", "post_publish", "post_release",
            "p_detect", "p_wait", "p_update"}
TeardownPcs == {"td_acquire", "td_unregister", "td_stop"}
EndPcs == {"done", "setup_failed", "step_failed"}
LoopCS == {"post_publish", "post_release"}
GpioCS == {"ev_publish", "ev_release"}

\* run() has not returned or raised yet.  The callback thread runs on after
\* that, until the interpreter exits.
Alive == pc \notin EndPcs

\* the part of run() a position belongs to
Phase(p) ==
  IF p \in {"setup", "setup_gpio"} THEN "setup"
  ELSE IF p \in StepPcs THEN "step"
  ELSE IF p \in TeardownPcs THEN "teardown"
  ELSE p

\* lastDrop: the step whose _post_samples acquire timed out last (0: none)
\* pubDropped: a sample was published in a step whose acquire timed out
\* pubOffline: a publish was made while the client was disconnected
\* evContended: the running _post_event started while _post_samples held
\*   the lock; evFreed: _post_samples released it before the handler's
\*   timeout; evBarged: the main thread took it again before the handler
\* tdTimedOut: _teardown's acquire timed out
\* evDropped: the last _post_event that returned had its acquire time out
\* probes: what is_ip_online returned at each call of the running
\*   _detect_person_presence, in call order; lastProbe: what the scan of
\*   the last of these calls gave ("none" before the first call)
\* notified: per person, the status published by the last
\*   _update_presence_status for that person ("none": nothing published)
\* calls, ops (ClientSpec): the start() and stop() calls made on the
\*   MQTTClient, and the operations they asked of the broker library, in order
\* pubs (ClientSpec): how each publish() call made so far ended, in order
\* ev (EventSpec): the last call made on the EventManager: its name,
\*   _listening as the call found it, whether it raised, the operations it
\*   asked of the broker library in order
\* call (RegistrySpec): the last call made on the subscriptions of the
\*   client: its name, the complete topic it was given, _callbacks as the
\*   call found it, whether it raised, the callbacks it invoked in order
HistInit == [lastDrop |-> 0, pubDropped |-> FALSE, pubOffline |-> FALSE,
             tdTimedOut |-> FALSE, evContended |-> FALSE, evFreed |-> FALSE,
             evBarged |-> FALSE, evDropped |-> FALSE, probes |-> <<>>,
             lastProbe |-> "none", notified |-> [p \in Persons |-> "none"],
             calls |-> <<>>, ops |-> <<>>, pubs |-> <<>>,
             call |-> [op |-> "none", topic |-> <<>>, before |-> <<>>,
                       raised |-> FALSE, invoked |-> <<>>],
             ev |-> [op |-> "none", was |-> FALSE, raised |-> FALSE,
                     ops |-> <<>>]]

EndEvent(h) == [h EXCEPT !.evContended = FALSE, !.evFreed = FALSE,
                         !.evBarged = FALSE]

\* the worker process as constructed by the loader
ProcessInit ==
  /\ worker \in {"sensors", "presence"}
  /\ client \in {"common", "root"}
  /\ loop_interval \in 0..MaxInterval
  /\ notify_always \in BOOLEAN
  /\ max_attempts \in 1..MaxAttempts
  /\ worker = "sensors" => (notify_always = TRUE /\ max_attempts = 1)
  /\ worker = "presence" => client = "common"
  /\ pc = "setup"
  /\ stop_looping = FALSE
  /\ connected = FALSE
  /\ locked = FALSE
  /\ holder = "none"
  /\ registered = {}
  /\ budget = 0
  /\ waitLeft = 0
  /\ samples = <<>>
  /\ sidx = 1
  /\ epc = "idle"
  /\ echan = 0
  /\ ebudget = 0
  /\ pidx = 1
  /\ attempts = 0
  /\ detected = FALSE
  /\ persons_status = [p \in Persons |-> FALSE]
  /\ setupCalls = 0
  /\ teardownCalls = 0
  /\ stepsStarted = 0
  /\ stepsDone = 0
  /\ armedAt = "none"
  /\ hist = HistInit

\* no callback is registered at construction; no expression is being tried
Init ==
  /\ ProcessInit
  /\ callbacks = <<>>
  /\ topic = <<>>
  /\ regex_topic = <<>>
  /\ message = <<>>
  /\ matched = "unset"
  /\ listening = FALSE
  /\ topics_and_actions = <<>>

\* ------------------------------------------------------------ MQTTClient
\* start(): connects only when not connected; connect() may raise
MqttStart == connected' = TRUE

\* stop(): disconnects only when connected
MqttStop == connected' = FALSE

\* a start that connects whatever _connected says
NeedsConnect_always == TRUE

\* start(): if not self._connected
NeedsConnect == ~connected

\* stop(): if self._connected
NeedsDisconnect == connected

\* start() called by any caller: connect() and loop_start(), unless already
\* connected; when connect() raises, _connected is left as it was
start ==
  /\ Len(hist.calls) < MaxCalls
  /\ IF NeedsConnect
       THEN \/ /\ MqttStart
               /\ hist' = [hist EXCEPT !.calls = Append(@, "start"),
                                       !.ops = Append(@, "connect")]
            \/ /\ UNCHANGED connected
               /\ hist' = [hist EXCEPT !.calls = Append(@, "start"),
                                       !.ops = Append(@, "connect_failed")]
       ELSE /\ UNCHANGED connected
            /\ hist' = [hist EXCEPT !.calls = Append(@, "start")]
  /\ UNCHANGED <<config, mqttVars, eventVars, pc, stop_looping, locked, holder, registered,
                 budget, waitLeft, samples, sidx, gpioVars, presenceVars,
                 counts, armedAt>>

\* stop() called by any caller: loop_stop() and disconnect(), unless
\* already disconnected
stop ==
  /\ Len(hist.calls) < MaxCalls
  /\ IF NeedsDisconnect
       THEN /\ MqttStop
            /\ hist' = [hist EXCEPT !.calls = Append(@, "stop"),
                                    !.ops = Append(@, "disconnect")]
       ELSE /\ UNCHANGED connected
            /\ hist' = [hist EXCEPT !.calls = Append(@, "stop")]
  /\ UNCHANGED <<config, mqttVars, eventVars, pc, stop_looping, locked, holder, registered,
                 budget, waitLeft, samples, sidx, gpioVars, presenceVars,
                 counts, armedAt>>

\* what the broker library's publish can do with a message: queue it for
\* the broker, or (no connection, full queue) give it up and say so in the
\* return code
PublishOutcomes == IF connected THEN {"sent", "failed"} ELSE {"failed"}

\* a publish that turns the library's error code into an exception
PublishRaises_onfailure(outcome) == outcome = "failed"

\* publish(): the library's return value is not looked at and nothing is
\* raised on it
PublishRaises(outcome) == FALSE

\* publish() / publish_event() called by any caller: one message is handed
\* to the broker library, whatever _connected says
publish ==
  /\ Len(hist.calls) + Len(hist.pubs) < MaxCalls
  /\ \E outcome \in PublishOutcomes :
       hist' = [hist EXCEPT !.pubs = Append(@, IF PublishRaises(outcome)
                                                 THEN "raised" ELSE outcome)]
  /\ UNCHANGED <<config, mqttVars, eventVars, pc, stop_looping, connected, locked, holder,
                 registered, budget, waitLeft, samples, sidx, gpioVars,
                 presenceVars, counts, armedAt>>

\* publish / publish_event / publish_sample hand one message to the broker
\* library; hist notes a publish made while the client is disconnected
NotePublish(h) == [h EXCEPT !.pubOffline = h.pubOffline \/ ~connected]

\* the common MQTTClient defines no publish_sample: the call raises
\* AttributeError; the root MQTTClient defines it
HasPublishSample == client = "root"

\* ----------------------------------------------- MQTTClient: subscriptions
\* A topic is a string, written here as the sequence of its characters.  The
\* topics tried have levels of one character each, joined by '/'.
Letters == {"a", "b"}
Wildcards == {"+", "#"}
Handlers == {"h1", "h2"}

Levels(S, n) == UNION {[1..k -> S] : k \in 1..n}

\* the string whose levels are the elements of levels
Join(levels) ==
  [i \in 1..(2 * Len(levels) - 1) |->
     IF i % 2 = 1 THEN levels[(i + 1) \div 2] ELSE "/"]

\* "{}/{}".format(self._base_topic, topic), with a base topic of one level
BaseTopic == <<"h">>
CompleteTopic(t) == BaseTopic \o <<"/">> \o t

\* _topic_to_regex: '/' becomes an escaped '/', '#' and '+' both become the
\* group (.*); every other character stands for itself.  The expression is
\* written as the sequence of its elements.
TopicToRegex(t) ==
  [i \in 1..Len(t) |-> IF t[i] = "/" THEN "\\/"
                       ELSE IF t[i] \in {"#", "+"} THEN "(.*)"
                       ELSE t[i]]

\* the elements of re from the i-th on match the characters of s from the
\* j-th on, up to some character of s: (.*) takes any run of characters,
\* '/' included, and nothing asks for the end of s
RECURSIVE MatchFrom(_, _, _, _)
MatchFrom(re, i, s, j) ==
  IF i > Len(re) THEN TRUE
  ELSE IF re[i] = "(.*)"
    THEN \E k \in j..(Len(s) + 1) : MatchFrom(re, i + 1, s, k)
    ELSE /\ j <= Len(s)
         /\ s[j] = (IF re[i] = "\\/" THEN "/" ELSE re[i])
         /\ MatchFrom(re, i + 1, s, j + 1)

\* regex.match(s): a match anchored at the start of s only
Match(re, s) == MatchFrom(re, 1, s, 1)

\* _topic_to_regex(topic)
topic_to_regex ==
  /\ topic # <<>>
  /\ regex_topic = <<>>
  /\ regex_topic' = TopicToRegex(topic)
  /\ UNCHANGED <<config, eventVars, pc, stop_looping, connected, locked, holder,
                 registered, budget, waitLeft, samples, sidx, gpioVars,
                 presenceVars, counts, armedAt, hist, callbacks, topic,
                 message, matched>>

\* topic_regex.match(message.topic)
match ==
  /\ regex_topic # <<>>
  /\ matched = "unset"
  /\ matched' = IF Match(regex_topic, message) THEN "match" ELSE "None"
  /\ UNCHANGED <<config, eventVars, pc, stop_looping, connected, locked, holder,
                 registered, budget, waitLeft, samples, sidx, gpioVars,
                 presenceVars, counts, armedAt, hist, callbacks, topic,
                 regex_topic, message>>

\* _callbacks is a dictionary keyed by the compiled expression: expressions
\* compiled from the same string are equal keys.  An entry also keeps the
\* complete topic its callback was registered with.
KeyIndex(key) == {i \in 1..Len(callbacks) : callbacks[i].regex = key}

HasKey(cbs, key) == \E i \in 1..Len(cbs) : cbs[i].regex = key

\* self._callbacks[_topic_to_regex(complete_topic)] = callback: a new key
\* is added at the end of the dictionary, an existing key keeps its place
\* and gets the new callback
Registered(cbs, complete_topic, cb) ==
  LET key == TopicToRegex(complete_topic)
      entry == [regex |-> key, topic |-> complete_topic, callback |-> cb]
  IN IF HasKey(cbs, key)
       THEN [i \in 1..Len(cbs) |-> IF cbs[i].regex = key THEN entry
                                                         ELSE cbs[i]]
       ELSE Append(cbs, entry)

\* del self._callbacks[_topic_to_regex(complete_topic)], for a key that is
\* in the dictionary
Unregistered(cbs, complete_topic) ==
  SelectSeq(cbs, LAMBDA e : e.regex # TopicToRegex(complete_topic))

\* register(topic, callback)
register(t, cb) ==
  LET complete_topic == CompleteTopic(t)
      key == TopicToRegex(complete_topic)
  IN /\ KeyIndex(key) = {} => Len(callbacks) < MaxCallbacks
     /\ callbacks' = Registered(callbacks, complete_topic, cb)
     /\ hist' = [hist EXCEPT !.call = [op |-> "register",
                                       topic |-> complete_topic,
                                       before |-> callbacks,
                                       raised |-> FALSE, invoked |-> <<>>]]
     /\ UNCHANGED <<config, eventVars, pc, stop_looping, connected, locked, holder,
                    registered, budget, waitLeft, samples, sidx, gpioVars,
                    presenceVars, counts, armedAt, topic, regex_topic,
                    message, matched>>

\* unregister(topic): del self._callbacks[key] raises KeyError when the key
\* is not in the dictionary
unregister(t) ==
  LET complete_topic == CompleteTopic(t)
      key == TopicToRegex(complete_topic)
  IN /\ callbacks' = Unregistered(callbacks, complete_topic)
     /\ hist' = [hist EXCEPT !.call = [op |-> "unregister",
                                       topic |-> complete_topic,
                                       before |-> callbacks,
                                       raised |-> (KeyIndex(key) = {}),
                                       invoked |-> <<>>]]
     /\ UNCHANGED <<config, eventVars, pc, stop_looping, connected, locked, holder,
                    registered, budget, waitLeft, samples, sidx, gpioVars,
                    presenceVars, counts, armedAt, topic, regex_topic,
                    message, matched>>

\* on_messagge(client, user_data, message): the dictionary is gone through
\* in its order and the callback of every key that matches is called
on_messagge(msg) ==
  LET hit == SelectSeq(callbacks, LAMBDA e : Match(e.regex, msg))
  IN /\ hist' = [hist EXCEPT !.call = [op |-> "on_messagge", topic |-> msg,
                                       before |-> callbacks,
                                       raised |-> FALSE,
                                       invoked |-> [i \in 1..Len(hit) |->
                                                      hit[i].callback]]]
     /\ UNCHANGED <<config, eventVars, pc, stop_looping, connected, locked, holder,
                    registered, budget, waitLeft, samples, sidx, gpioVars,
                    presenceVars, counts, armedAt, mqttVars>>

\* ---------------------------------------------------------- EventManager
\* start_listening: for topic, action in self._topics_and_actions:
\* self._broker_client.register(topic, action), from the i-th entry on
RECURSIVE RegisterAll(_, _, _)
RegisterAll(cbs, list, i) ==
  IF i > Len(list) THEN cbs
  ELSE RegisterAll(Registered(cbs, CompleteTopic(list[i].topic),
                              list[i].action), list, i + 1)

\* stop_listening: for topic, _ in self._topics_and_actions:
\* self._broker_client.unregister(topic), from the i-th entry on: the loop
\* ends at the first entry whose key is not in the dictionary, after the
\* unsubscribe of that entry, with KeyError
RECURSIVE UnregisterAll(_, _, _)
UnregisterAll(cbs, list, i) ==
  IF i > Len(list) THEN [callbacks |-> cbs, raised |-> FALSE, n |-> Len(list)]
  ELSE IF HasKey(cbs, TopicToRegex(CompleteTopic(list[i].topic)))
    THEN UnregisterAll(Unregistered(cbs, CompleteTopic(list[i].topic)),
                       list, i + 1)
    ELSE [callbacks |-> cbs, raised |-> TRUE, n |-> i]

\* start_listening(): nothing when already listening; else start() of the
\* client (whose connect may raise), the registrations, _listening = True
start_listening ==
  /\ IF listening
       THEN /\ hist' = [hist EXCEPT !.ev = [op |-> "start_listening",
                                            was |-> TRUE, raised |-> FALSE,
                                            ops |-> <<>>]]
            /\ UNCHANGED <<connected, callbacks, listening>>
       ELSE \/ /\ IF NeedsConnect THEN MqttStart ELSE UNCHANGED connected
               /\ callbacks' = RegisterAll(callbacks, topics_and_actions, 1)
               /\ listening' = TRUE
               /\ hist' = [hist EXCEPT !.ev =
                    [op |-> "start_listening", was |-> FALSE,
                     raised |-> FALSE,
                     ops |-> (IF NeedsConnect THEN <<"connect">> ELSE <<>>)
                             \o [i \in 1..Len(topics_and_actions) |->
                                   "subscribe"]]]
            \/ /\ NeedsConnect               \* connect() raised
               /\ hist' = [hist EXCEPT !.ev =
                    [op |-> "start_listening", was |-> FALSE,
                     raised |-> TRUE, ops |-> <<"connect_failed">>]]
               /\ UNCHANGED <<connected, callbacks, listening>>
  /\ UNCHANGED <<config, pc, stop_looping, locked, holder, registered,
                 budget, waitLeft, samples, sidx, gpioVars, presenceVars,
                 counts, armedAt, topic, regex_topic, message, matched,
                 topics_and_actions>>

\* stop_listening(): nothing when not listening; else the unregistrations,
\* stop() of the client, _listening = False; a KeyError of unregister
\* leaves the method before stop()
stop_listening ==
  LET u == UnregisterAll(callbacks, topics_and_actions, 1)
  IN
  /\ IF ~listening
       THEN /\ hist' = [hist EXCEPT !.ev = [op |-> "stop_listening",
                                            was |-> FALSE, raised |-> FALSE,
                                            ops |-> <<>>]]
            /\ UNCHANGED <<connected, callbacks, listening>>
       ELSE /\ callbacks' = u.callbacks
            /\ IF u.raised
                 THEN UNCHANGED <<connected, listening>>
                 ELSE /\ listening' = FALSE
                      /\ IF NeedsDisconnect THEN MqttStop
                                            ELSE UNCHANGED connected
            /\ hist' = [hist EXCEPT !.ev =
                 [op |-> "stop_listening", was |-> TRUE, raised |-> u.raised,
                  ops |-> [i \in 1..u.n |-> "unsubscribe"]
                          \o (IF ~u.raised /\ NeedsDisconnect
                                THEN <<"disconnect">> ELSE <<>>)]]
  /\ UNCHANGED <<config, pc, stop_looping, locked, holder, registered,
                 budget, waitLeft, samples, sidx, gpioVars, presenceVars,
                 counts, armedAt, topic, regex_topic, message, matched,
                 topics_and_actions>>

\* ------------------------------------------------- multiprocessing.Lock
\* an acquire that never finds the lock taken
CanAcquire_always == TRUE

\* acquire(block=True, timeout=t) returns True as soon as the lock is free
CanAcquire == ~locked

\* ... and False once t seconds have passed with the lock taken
AcquireTimesOut(left) == ~CanAcquire /\ left = 0

Acquire(who) == locked' = TRUE /\ holder' = who

\* a release that is left out
Release_missing == UNCHANGED <<locked, holder>>

Release == locked' = FALSE /\ holder' = "none"

\* -------------------------------------------------- StoppableLoopProcess
\* a wait that sleeps the whole interval (time.sleep)
WaitReturns_sleep == waitLeft = 0

\* _wait: Event.wait(timeout) returns when the flag is set or the time is up
WaitReturns == stop_looping \/ waitLeft = 0

\* a loop that tests the flag only after its first step
LoopContinues_dowhile == ~stop_looping \/ stepsStarted = 0

\* a loop that never tests the flag
LoopContinues_forever == TRUE

\* run(): while not self._stop_looping.is_set()
LoopContinues == ~stop_looping

\* run(): what follows the while loop
AfterLoop == IF worker = "sensors" THEN "td_acquire" ELSE "td_stop"

\* the end of a _loop call that returns: run() goes on to _wait(interval)
EndStep ==
  /\ pc' = "wait"
  /\ waitLeft' = loop_interval
  /\ stepsDone' = stepsDone + 1

\* a handler that breaks off the running step and goes to the teardown
shutdown_abort ==
  /\ Alive
  /\ stop_looping' = TRUE
  /\ armedAt' = IF stop_looping THEN armedAt ELSE Phase(pc)
  /\ IF pc \in StepPcs
       THEN /\ pc' = AfterLoop
            /\ teardownCalls' = teardownCalls + 1
            /\ budget' = TeardownLockTimeout
       ELSE UNCHANGED <<pc, teardownCalls, budget>>
  /\ UNCHANGED <<config, mqttVars, eventVars, connected, locked, holder, registered, waitLeft,
                 samples, sidx, gpioVars, presenceVars, setupCalls,
                 stepsStarted, stepsDone, hist>>

\* _shutdown(signum, frame): the handler arms the event and returns; the
\* interrupted statement of the main thread resumes
shutdown ==
  /\ Alive
  /\ stop_looping' = TRUE
  /\ armedAt' = IF stop_looping THEN armedAt ELSE Phase(pc)
  /\ UNCHANGED <<config, mqttVars, eventVars, pc, connected, locked, holder, registered, budget,
                 waitLeft, samples, sidx, gpioVars, presenceVars, counts, hist>>

\* a run() that calls _setup again when it has raised
AfterSetupRaised_retry == "setup"

\* run(): self._setup() is called outside any try: what it raises leaves
\* run()
AfterSetupRaised == "setup_failed"

\* run(): self._setup(), first statement of both workers: _mqtt_client.start()
setup_start ==
  /\ pc = "setup"
  /\ setupCalls' = setupCalls + 1
  /\ \/ /\ MqttStart
        /\ pc' = IF worker = "sensors" THEN "setup_gpio" ELSE "check"
     \/ /\ pc' = AfterSetupRaised         \* connect() raised
        /\ UNCHANGED connected
  /\ UNCHANGED <<config, mqttVars, eventVars, stop_looping, locked, holder, registered, budget,
                 waitLeft, samples, sidx, gpioVars, presenceVars,
                 teardownCalls, stepsStarted, stepsDone, armedAt, hist>>

\* SensorsManager._setup: for event_channel in self._events.keys():
\* GPIO.add_event_detect(event_channel, ..., callback=self._post_event)
NextToRegister == CHOOSE c \in Channels \ registered :
                    \A d \in Channels \ registered : c <= d

setup_register ==
  /\ pc = "setup_gpio"
  /\ IF registered = Channels
       THEN pc' = "check" /\ UNCHANGED registered
       ELSE registered' = registered \cup {NextToRegister} /\ UNCHANGED pc
  /\ UNCHANGED <<config, mqttVars, eventVars, stop_looping, connected, locked, holder, budget,
                 waitLeft, samples, sidx, gpioVars, presenceVars, counts, armedAt, hist>>

\* run(): the while condition; a true condition starts the next _loop call
loop_check ==
  /\ pc = "check"
  /\ IF LoopContinues
       THEN /\ stepsStarted < MaxTicks
            /\ stepsStarted' = stepsStarted + 1
            /\ pc' = IF worker = "sensors" THEN "sample" ELSE "p_detect"
            /\ pidx' = 1 /\ attempts' = 0 /\ detected' = FALSE
            /\ UNCHANGED <<teardownCalls, budget>>
       ELSE /\ pc' = AfterLoop
            /\ teardownCalls' = teardownCalls + 1
            /\ budget' = IF AfterLoop = "td_acquire"
                            THEN TeardownLockTimeout ELSE budget
            /\ UNCHANGED <<stepsStarted, pidx, attempts, detected>>
  /\ UNCHANGED <<config, mqttVars, eventVars, stop_looping, connected, locked, holder, registered,
                 waitLeft, samples, sidx, gpioVars, persons_status,
                 setupCalls, stepsDone, armedAt, hist>>

\* run(): self._wait(self._loop_interval) returns
wait_return ==
  /\ pc = "wait"
  /\ WaitReturns
  /\ pc' = "check"
  /\ waitLeft' = 0
  /\ UNCHANGED <<config, mqttVars, eventVars, stop_looping, connected, locked, holder, registered,
                 budget, samples, sidx, gpioVars, presenceVars,
                 counts, armedAt, hist>>

\* ------------------------------------------------------- SensorsManager
\* the samples of the sensors in ok, in list order (a sensor whose read
\* fails catches the driver's exception and appends nothing)
RECURSIVE Collect(_, _)
Collect(i, ok) ==
  IF i > Len(Sensors) THEN <<>>
  ELSE (IF Sensors[i] \in ok THEN SamplesOf(Sensors[i]) ELSE <<>>)
       \o Collect(i + 1, ok)

SensorSet == {Sensors[i] : i \in 1..Len(Sensors)}

\* _sample: read every sensor, then call _post_samples(samples), which
\* starts with self._lock.acquire(block=True, timeout=5)
sample ==
  /\ pc = "sample"
  /\ \E ok \in SUBSET SensorSet : samples' = Collect(1, ok)
  /\ pc' = "post_acquire"
  /\ budget' = SampleLockTimeout
  /\ sidx' = 1
  /\ UNCHANGED <<config, mqttVars, eventVars, stop_looping, connected, locked, holder, registered,
                 waitLeft, gpioVars, presenceVars, counts, armedAt,
                 hist>>

\* a _post_samples that ignores what acquire returns
PostSamplesBranch_ignore(acquired) ==
  IF samples = <<>> THEN "post_release" ELSE "post_publish"

\* _post_samples: where the if on acquire's result leads
PostSamplesBranch(acquired) ==
  IF acquired THEN (IF samples = <<>> THEN "post_release" ELSE "post_publish")
  ELSE "wait"

\* _post_samples: the acquire succeeds
post_samples_acquire ==
  /\ pc = "post_acquire"
  /\ CanAcquire
  /\ Acquire("loop")
  /\ budget' = 0
  /\ pc' = PostSamplesBranch(TRUE)
  /\ hist' = [hist EXCEPT !.evBarged =
                hist.evBarged \/ (epc = "ev_acquire" /\ hist.evFreed)]
  /\ UNCHANGED <<config, mqttVars, eventVars, stop_looping, connected, registered, waitLeft,
                 samples, sidx, gpioVars, presenceVars, counts,
                 armedAt>>

\* _post_samples: the acquire times out; the batch is not published
post_samples_timeout ==
  /\ pc = "post_acquire"
  /\ AcquireTimesOut(budget)
  /\ hist' = [hist EXCEPT !.lastDrop = stepsStarted]
  /\ IF PostSamplesBranch(FALSE) = "wait"
       THEN EndStep /\ samples' = <<>>
       ELSE /\ pc' = PostSamplesBranch(FALSE)
            /\ UNCHANGED <<waitLeft, stepsDone, samples>>
  /\ budget' = 0
  /\ UNCHANGED <<config, mqttVars, eventVars, stop_looping, connected, locked, holder, registered,
                 sidx, gpioVars, presenceVars, setupCalls,
                 teardownCalls, stepsStarted, armedAt>>

\* _post_samples: one turn of for sample in samples: publish_sample(sample)
post_samples_publish ==
  /\ pc = "post_publish"
  /\ sidx <= Len(samples)
  /\ IF HasPublishSample
       THEN /\ hist' = [NotePublish(hist) EXCEPT
                          !.pubDropped = hist.pubDropped
                                         \/ hist.lastDrop = stepsStarted]
            /\ sidx' = sidx + 1
            /\ pc' = IF sidx = Len(samples) THEN "post_release" ELSE "post_publish"
       ELSE /\ pc' = "step_failed"        \* AttributeError leaves run()
            /\ UNCHANGED <<hist, sidx>>
  /\ UNCHANGED <<config, mqttVars, eventVars, stop_looping, connected, locked, holder, registered,
                 budget, waitLeft, samples, gpioVars, presenceVars, counts, armedAt>>

\* _post_samples: self._lock.release(), and _loop returns
post_samples_release ==
  /\ pc = "post_release"
  /\ Release
  /\ EndStep
  /\ hist' = [hist EXCEPT !.evFreed =
                hist.evFreed \/ (epc = "ev_acquire" /\ hist.evContended
                                 /\ ebudget > 0)]
  /\ samples' = <<>>
  /\ sidx' = 1
  /\ UNCHANGED <<config, mqttVars, eventVars, stop_looping, connected, registered, budget, gpioVars, presenceVars, setupCalls, teardownCalls,
                 stepsStarted, armedAt>>

\* _teardown: if self._lock.acquire(block=True, timeout=10): the lock is
\* taken and never released
teardown_acquire ==
  /\ pc = "td_acquire"
  /\ CanAcquire
  /\ Acquire("loop")
  /\ pc' = "td_unregister"
  /\ hist' = [hist EXCEPT !.evBarged =
                hist.evBarged \/ (epc = "ev_acquire" /\ hist.evFreed)]
  /\ budget' = 0
  /\ UNCHANGED <<config, mqttVars, eventVars, stop_looping, connected, registered, waitLeft,
                 samples, sidx, gpioVars, presenceVars, counts,
                 armedAt>>

\* a _teardown that cleans up whatever acquire returns
TeardownAfterTimeout_proceed == "td_unregister"

\* _teardown: where a timed out acquire leads: past the whole if block
TeardownAfterTimeout == "done"

teardown_timeout ==
  /\ pc = "td_acquire"
  /\ AcquireTimesOut(budget)
  /\ pc' = TeardownAfterTimeout
  /\ budget' = 0
  /\ hist' = [hist EXCEPT !.tdTimedOut = TRUE]
  /\ UNCHANGED <<config, mqttVars, eventVars, stop_looping, connected, locked, holder, registered,
                 waitLeft, samples, sidx, gpioVars, presenceVars,
                 counts, armedAt>>

\* _teardown: for event_channel in self._events.keys():
\* GPIO.remove_event_detect(event_channel)
NextToUnregister == CHOOSE c \in registered : \A d \in registered : c <= d

\* a loop that ends before it has removed anything
UnregisterDone_early == TRUE

\* the for loop has gone through every channel
UnregisterDone == registered = {}

teardown_unregister ==
  /\ pc = "td_unregister"
  /\ IF UnregisterDone
       THEN pc' = "td_stop" /\ UNCHANGED registered
       ELSE registered' = registered \ {NextToUnregister} /\ UNCHANGED pc
  /\ UNCHANGED <<config, mqttVars, eventVars, stop_looping, connected, locked, holder, budget,
                 waitLeft, samples, sidx, gpioVars, presenceVars, counts, armedAt, hist>>

\* _teardown of both workers: self._mqtt_client.stop(), and run() returns
teardown_stop ==
  /\ pc = "td_stop"
  /\ MqttStop
  /\ pc' = "done"
  /\ UNCHANGED <<config, mqttVars, eventVars, stop_looping, locked, holder, registered, budget,
                 waitLeft, samples, sidx, gpioVars, presenceVars, counts, armedAt, hist>>

\* ------------------------------------------ the GPIO callback thread
\* a rising edge on a channel with a callback: the library calls
\* _post_event(channel), which starts with acquire(block=True, timeout=20)
edge(ch) ==
  /\ epc = "idle"
  /\ ch \in registered
  /\ epc' = "ev_acquire"
  /\ echan' = ch
  /\ ebudget' = EventLockTimeout
  /\ hist' = [hist EXCEPT !.evContended = locked /\ pc \in LoopCS,
                          !.evDropped = FALSE]
  /\ UNCHANGED <<config, mqttVars, eventVars, pc, stop_looping, connected, locked, holder,
                 registered, budget, waitLeft, samples, sidx, presenceVars,
                 counts, armedAt>>

\* a _post_event that ignores what acquire returns
PostEventBranch_ignore(acquired) == "ev_publish"

\* _post_event: where the if on acquire's result leads
PostEventBranch(acquired) == IF acquired THEN "ev_publish" ELSE "idle"

post_event_acquire ==
  /\ epc = "ev_acquire"
  /\ CanAcquire
  /\ Acquire("gpio")
  /\ epc' = PostEventBranch(TRUE)
  /\ ebudget' = 0
  /\ UNCHANGED <<config, mqttVars, eventVars, pc, stop_looping, connected, registered, budget,
                 waitLeft, samples, sidx, echan,
                 presenceVars, counts, armedAt, hist>>

\* the acquire times out: _post_event returns, the event is not published
post_event_timeout ==
  /\ epc = "ev_acquire"
  /\ AcquireTimesOut(ebudget)
  /\ epc' = PostEventBranch(FALSE)
  /\ IF PostEventBranch(FALSE) = "idle"
       THEN /\ hist' = [EndEvent(hist) EXCEPT !.evDropped = TRUE]
            /\ echan' = 0
       ELSE UNCHANGED <<hist, echan>>
  /\ ebudget' = 0
  /\ UNCHANGED <<config, mqttVars, eventVars, pc, stop_looping, connected, locked, holder,
                 registered, budget, waitLeft, samples, sidx, presenceVars, counts, armedAt>>

\* self._mqtt_client.publish_event(self._events[channel])
post_event_publish ==
  /\ epc = "ev_publish"
  /\ epc' = "ev_release"
  /\ hist' = EndEvent(NotePublish(hist))
  /\ UNCHANGED <<config, mqttVars, eventVars, pc, stop_looping, connected, locked, holder,
                 registered, budget, waitLeft, samples, sidx, echan, ebudget, presenceVars, counts, armedAt>>

\* self._lock.release()
post_event_release ==
  /\ epc = "ev_release"
  /\ Release
  /\ epc' = "idle"
  /\ echan' = 0
  /\ UNCHANGED <<config, mqttVars, eventVars, pc, stop_looping, connected, registered, budget,
                 waitLeft, samples, sidx, ebudget,
                 presenceVars, counts, armedAt, hist>>
\* ----------------------------------------------- NetworkPresenceDetector
\* what one nmap scan can give is_ip_online(ip_addr):
\*   "up"      a report whose first host has status up
\*   "down"    a report whose first host has another status
\*   "error"   output that NmapParser.parse rejects (NmapParserException)
\*   "nohost"  a report that lists no host at all
ProbeOutcomes == {"up", "down", "error", "nohost"}

\* is_ip_online's result when it returns: True for a host that is up,
\* False otherwise (the NmapParserException is caught)
IsIpOnline(outcome) == outcome = "up"

\* report.hosts[0] on an empty list raises IndexError, which the except
\* clause (NmapParserException only) lets through
ProbeRaises(outcome) == outcome = "nohost"

\* a loop test that allows one attempt too many
MoreAttempts_inclusive == attempts <= max_attempts

\* a detection that gives up its remaining attempts once the stop signal
\* is armed
MoreAttempts_untilstop == attempts < max_attempts /\ ~stop_looping

\* _detect_person_presence: while attempts < self._max_detection_attempts
MoreAttempts == attempts < max_attempts

\* _detect_person_presence: one test of the while condition, and, inside
\* the loop, one probe followed by break or by self._wait(3)
detect_attempt ==
  /\ pc = "p_detect"
  /\ IF MoreAttempts
       THEN /\ attempts' = attempts + 1
            /\ \E outcome \in ProbeOutcomes :
                 /\ hist' = [hist EXCEPT
                              !.lastProbe = outcome,
                              !.probes = IF ProbeRaises(outcome) THEN @
                                         ELSE Append(@, IsIpOnline(outcome))]
                 /\ IF ProbeRaises(outcome)
                      THEN /\ pc' = "step_failed"  \* leaves _loop and run()
                           /\ UNCHANGED <<detected, waitLeft>>
                      ELSE IF IsIpOnline(outcome)
                        THEN /\ detected' = TRUE
                             /\ pc' = "p_update"
                             /\ UNCHANGED waitLeft
                        ELSE /\ pc' = "p_wait"
                             /\ waitLeft' = RetryWait
                             /\ UNCHANGED detected
       ELSE /\ pc' = "p_update"
            /\ UNCHANGED <<attempts, detected, waitLeft, hist>>
  /\ UNCHANGED <<config, mqttVars, eventVars, stop_looping, connected, locked, holder, registered,
                 budget, samples, sidx, gpioVars, pidx, persons_status,
                 counts, armedAt>>

\* a retry wait that clears the event once it has seen it
detect_wait_return_clear ==
  /\ pc = "p_wait"
  /\ WaitReturns
  /\ pc' = "p_detect"
  /\ waitLeft' = 0
  /\ stop_looping' = FALSE
  /\ UNCHANGED <<config, mqttVars, eventVars, connected, locked, holder, registered,
                 budget, samples, sidx, gpioVars, presenceVars,
                 counts, armedAt, hist>>

\* _detect_person_presence: self._wait(3) returns
detect_wait_return ==
  /\ pc = "p_wait"
  /\ WaitReturns
  /\ pc' = "p_detect"
  /\ waitLeft' = 0
  /\ UNCHANGED <<config, mqttVars, eventVars, stop_looping, connected, locked, holder, registered,
                 budget, samples, sidx, gpioVars, presenceVars,
                 counts, armedAt, hist>>

\* an update that publishes whatever the flag says
Notifies_always(old, new) == TRUE

\* _update_presence_status: whether _notify_status is called
Notifies(old, new) == notify_always \/ new # old

\* a payload with the two words swapped
NotifyStatus_swapped(is_present) == IF is_present THEN "absent" ELSE "present"

\* _notify_status: the status field of the payload published
NotifyStatus(is_present) == IF is_present THEN "present" ELSE "absent"

\* an update that writes the result into every entry
StoreStatus_all(status, name, is_present) ==
  [p \in DOMAIN status |-> is_present]

\* _update_presence_status: self._persons_status[name] = is_present
StoreStatus(status, name, is_present) == [status EXCEPT ![name] = is_present]

\* _update_presence_status(name, presence_detected), then the next person
\* of _loop's for, or the end of _loop
update_presence_status ==
  /\ pc = "p_update"
  /\ persons_status' = StoreStatus(persons_status, pidx, detected)
  /\ hist' = IF Notifies(persons_status[pidx], detected)
               THEN [NotePublish(hist) EXCEPT
                       !.probes = <<>>, !.lastProbe = "none",
                       !.notified[pidx] = NotifyStatus(detected)]
               ELSE [hist EXCEPT !.probes = <<>>, !.lastProbe = "none",
                                 !.notified[pidx] = "none"]
  /\ IF pidx < NumPersons
       THEN /\ pidx' = pidx + 1
            /\ attempts' = 0
            /\ detected' = FALSE
            /\ pc' = "p_detect"
            /\ UNCHANGED <<waitLeft, stepsDone>>
       ELSE /\ EndStep
            /\ UNCHANGED <<pidx, attempts, detected>>
  /\ UNCHANGED <<config, mqttVars, eventVars, stop_looping, connected, locked, holder, registered,
                 budget, samples, sidx, gpioVars, setupCalls, teardownCalls,
                 stepsStarted, armedAt>>

\* ------------------------------------------------------------------ time
\* one second passes, unless a blocked call of some thread is due to return
Acquiring == pc \in {"post_acquire", "td_acquire"}
Waiting == pc \in {"wait", "p_wait"}

Tick ==
  /\ ~(Acquiring /\ (CanAcquire \/ AcquireTimesOut(budget)))
  /\ ~(epc = "ev_acquire" /\ (CanAcquire \/ AcquireTimesOut(ebudget)))
  /\ ~(Waiting /\ WaitReturns)
  /\ Acquiring \/ epc = "ev_acquire" \/ Waiting
  /\ budget' = IF Acquiring THEN budget - 1 ELSE budget
  /\ ebudget' = IF epc = "ev_acquire" THEN ebudget - 1 ELSE ebudget
  /\ waitLeft' = IF Waiting THEN waitLeft - 1 ELSE waitLeft
  /\ UNCHANGED <<config, mqttVars, eventVars, pc, stop_looping, connected, locked, holder,
                 registered, samples, sidx, epc, echan, presenceVars,
                 counts, armedAt, hist>>

Next ==
  \/ shutdown
  \/ setup_start
  \/ setup_register
  \/ loop_check
  \/ wait_return
  \/ sample
  \/ post_samples_acquire
  \/ post_samples_timeout
  \/ post_samples_publish
  \/ post_samples_release
  \/ teardown_acquire
  \/ teardown_timeout
  \/ teardown_unregister
  \/ teardown_stop
  \/ \E ch \in Channels : edge(ch)
  \/ post_event_acquire
  \/ post_event_timeout
  \/ post_event_publish
  \/ post_event_release
  \/ detect_attempt
  \/ detect_wait_return
  \/ update_presence_status
  \/ Tick

Spec == Init /\ [][Next]_vars

\* the steps of the main thread (run() and what it calls) and of the
\* callback thread (_post_event)
MainStep ==
  \/ setup_start \/ setup_register \/ loop_check \/ wait_return
  \/ sample \/ post_samples_acquire \/ post_samples_timeout
  \/ post_samples_publish \/ post_samples_release
  \/ teardown_acquire \/ teardown_timeout \/ teardown_unregister
  \/ teardown_stop
  \/ detect_attempt \/ detect_wait_return \/ update_presence_status

GpioStep ==
  \/ post_event_acquire \/ post_event_timeout
  \/ post_event_publish \/ post_event_release

\* Both threads are scheduled: a thread whose next statement can run does
\* run it (sensor, probe and broker calls return).  Time does not stop:
\* a second that can pass again and again does pass, so an acquire or a
\* wait with a timeout reaches its deadline.  Signals and edges come from
\* outside and are under no obligation.
FairSpec ==
  /\ Spec
  /\ WF_vars(MainStep)
  /\ WF_vars(GpioStep)
  /\ SF_vars(Tick)

\* An MQTTClient of either class on its own, freshly constructed, on which
\* a caller makes any sequence of start(), stop() and publish() calls.
ClientInit == Init /\ worker = "sensors" /\ loop_interval = 0

ClientNext == start \/ stop \/ publish

ClientSpec == ClientInit /\ [][ClientNext]_vars

\* The topic matcher on its own: one topic is compiled and the expression
\* is tried on the topic of one message.
MatcherInit ==
  /\ ProcessInit /\ worker = "sensors" /\ client = "common"
  /\ loop_interval = 0
  /\ callbacks = <<>>
  /\ topic \in {Join(l) : l \in Levels(Letters \cup Wildcards, MaxLevels)}
  /\ message \in {Join(l) : l \in Levels(Letters, MaxLevels)}
  /\ regex_topic = <<>>
  /\ matched = "unset"
  /\ listening = FALSE
  /\ topics_and_actions = <<>>

MatcherNext == topic_to_regex \/ match

MatcherSpec == MatcherInit /\ [][MatcherNext]_vars

\* The subscriptions of a common MQTTClient on its own: a caller registers
\* and unregisters callbacks and the broker library delivers messages.
RegTopics == {Join(l) : l \in Levels(Letters \cup Wildcards, MaxRegLevels)}
Messages == {CompleteTopic(Join(l)) : l \in Levels(Letters, MaxRegLevels)}

RegistryInit == Init /\ worker = "sensors" /\ client = "common"
                     /\ loop_interval = 0

RegistryNext ==
  \/ \E t \in RegTopics, cb \in Handlers : register(t, cb)
  \/ \E t \in RegTopics : unregister(t)
  \/ \E msg \in Messages : on_messagge(msg)

RegistrySpec == RegistryInit /\ [][RegistryNext]_vars

\* An EventManager on its own, constructed on a fresh common MQTTClient
\* with any list of topics and actions, on which a caller makes any
\* sequence of start_listening() and stop_listening() calls.
EventInit ==
  /\ ProcessInit /\ worker = "sensors" /\ client = "common"
  /\ loop_interval = 0
  /\ callbacks = <<>>
  /\ topic = <<>>
  /\ regex_topic = <<>>
  /\ message = <<>>
  /\ matched = "unset"
  /\ listening = FALSE
  /\ topics_and_actions \in
       UNION {[1..k -> [topic : RegTopics, action : Handlers]] :
                k \in 0..MaxSubscriptions}

EventNext == start_listening \/ stop_listening

EventSpec == EventInit /\ [][EventNext]_vars
\* ================================================================ claims
\* C1 as stated: in every run in which no step raises, _setup is called
\* exactly once and _teardown exactly once.
C1_AsClaimed ==
  (pc \in {"done", "setup_failed"}) => (setupCalls = 1 /\ teardownCalls = 1)

\* C1 amended: in every run in which neither _setup nor a step raises,
\* _setup is called exactly once before any step, _teardown exactly once,
\* no step runs after _teardown has been called, and a stop signal armed
\* before the first loop check gives zero steps and still one teardown.
C1_SetupStepsTeardown ==
  /\ setupCalls <= 1 /\ teardownCalls <= 1
  /\ stepsStarted > 0 => setupCalls = 1
  /\ teardownCalls = 1 =>
       (pc \in TeardownPcs \cup {"done"} /\ stepsDone = stepsStarted)
  /\ pc = "done" => (setupCalls = 1 /\ teardownCalls = 1)
  /\ armedAt = "setup" => stepsStarted = 0

C1_Witness ==
  pc = "done" /\ armedAt = "setup" /\ stepsStarted = 0 /\ teardownCalls = 1

\* C2: when a step raises, _teardown has still been executed exactly once
\* by the time the failure leaves run().
C2_TeardownAfterStepFailure == pc = "step_failed" => teardownCalls = 1

\* C3: once the stop signal is armed while run() is in its interval wait,
\* no more time of the interval passes, the wait returns, no further step
\* starts and run() goes from the loop check to the teardown.
C3_WaitEndsEarly ==
  [][ /\ (pc = "wait" /\ stop_looping) =>
           \/ (pc' = "wait" /\ waitLeft' = waitLeft)
           \/ (pc' = "check" /\ stepsStarted' = stepsStarted)
      /\ (pc = "check" /\ stop_looping) =>
           /\ pc' \in {"check"} \cup TeardownPcs
           /\ stepsStarted' = stepsStarted ]_vars

C3_Witness ==
  pc = "wait" /\ stop_looping /\ armedAt = "wait" /\ waitLeft > 0

\* C4: a stop signal armed during a step does not abort the step: whenever
\* the main thread is outside a step every started step has completed (or
\* raised by itself), and the teardown starts only from the loop check.
C4_StepRunsToCompletion ==
  /\ pc \in StepPcs \cup {"step_failed"} => stepsStarted = stepsDone + 1
  /\ pc \notin StepPcs \cup {"step_failed"} => stepsDone = stepsStarted
  /\ armedAt = "step" => stepsStarted >= 1

C4_Witness ==
  armedAt = "step" /\ pc = "done" /\ stepsDone = stepsStarted

\* C5: the sampling publish and the event publish are never in their
\* critical sections together, and a thread about to publish holds the lock.
C5_MutualExclusion ==
  /\ ~(pc \in LoopCS /\ epc \in GpioCS)
  /\ pc \in LoopCS => (locked /\ holder = "loop")
  /\ epc \in GpioCS => (locked /\ holder = "gpio")

C5_Witness ==
  pc = "post_publish" /\ epc = "ev_acquire" /\ ebudget < EventLockTimeout

\* C6: no event or sample publish is in progress while _teardown
\* unregisters and disconnects, nor after it has disconnected, and no
\* publish is ever made on a disconnected client.
C6_NoPublishAroundDisconnect ==
  /\ (pc \in {"td_unregister", "td_stop"} \/ (pc = "done" /\ ~connected)) =>
       (epc \notin GpioCS /\ (worker = "sensors" => holder = "loop"))
  /\ ~hist.pubOffline

C6_Witness ==
  pc = "done" /\ ~connected /\ epc = "ev_acquire" /\ ebudget < EventLockTimeout

\* C7: when _teardown's acquire times out the broker client is still
\* disconnected by the time run() returns.
C7_DisconnectUnconditional ==
  (pc = "done" /\ hist.tdTimedOut) => ~connected

\* C8: at the end of run(), by return or by a failure of a step, the broker
\* client is not connected.
C8_ClosedAtExit == pc \in {"done", "step_failed"} => ~connected

\* C9 as stated: an event handler that started waiting while the sampling
\* publish held the lock, and saw the lock released before its timeout,
\* does not give up (the event is not dropped).
C9_AsClaimed ==
  [][ (epc = "ev_acquire" /\ epc' = "idle") =>
        ~(hist.evContended /\ hist.evFreed) ]_vars

\* C9 amended: such a handler gives up only if the main thread took the
\* lock again (next sampling publish, or teardown) before the handler did.
C9_PublishedUnlessBarged ==
  [][ (epc = "ev_acquire" /\ epc' = "idle") =>
        ~(hist.evContended /\ hist.evFreed /\ ~hist.evBarged) ]_vars

C9_Witness ==
  epc = "ev_publish" /\ hist.evContended /\ hist.evFreed /\ ~hist.evBarged

\* C10: a step whose sampling acquire timed out publishes none of its
\* samples, returns normally, and the loop goes on.
C10_BatchDropped ==
  /\ ~hist.pubDropped
  /\ hist.lastDrop > 0 => stepsDone >= hist.lastDrop
  /\ pc = "step_failed" => hist.lastDrop # stepsStarted

C10_Witness ==
  hist.lastDrop = 1 /\ stepsStarted = 2 /\ pc = "post_publish"

\* C11: a _post_event whose acquire times out returns normally without
\* publishing and without touching the lock, leaves nothing pending for
\* a later publish, and an event publish is only ever started by the
\* handler invocation that has just taken the lock.
C11_EventDropped ==
  [][ /\ (epc = "ev_acquire" /\ epc' # "ev_acquire") =>
           IF locked
             THEN /\ ebudget = 0
                  /\ epc' = "idle" /\ echan' = 0 /\ ebudget' = 0
                  /\ hist'.pubOffline = hist.pubOffline
                  /\ UNCHANGED <<locked, holder, connected>>
             ELSE epc' = "ev_publish" /\ echan' = echan
      /\ (epc' = "ev_publish" /\ epc # "ev_publish") =>
           (epc = "ev_acquire" /\ ~locked)
      /\ hist'.evDropped => (epc' = "idle" /\ echan' = 0) ]_vars

C11_Witness ==
  hist.evDropped /\ epc = "idle" /\ pc \in LoopCS /\ registered # {}

\* C12 as stated: the timeouts are ordered sampling < event <= teardown:
\* a sampling acquire never has as long left to wait as the event
\* handler's whole timeout, and an event handler never has longer left to
\* wait than teardown's whole timeout.
C12_AsClaimed ==
  /\ pc = "post_acquire" => budget < EventLockTimeout
  /\ epc = "ev_acquire" => ebudget <= TeardownLockTimeout

\* C12 amended: the timeouts are ordered sampling < teardown < event: a
\* sampling acquire waits at most SampleLockTimeout, which is less than
\* teardown's whole timeout; a teardown acquire waits at most
\* TeardownLockTimeout, which is less than the event handler's whole
\* timeout; the event handler waits at most EventLockTimeout.
C12_TimeoutOrder ==
  /\ pc = "post_acquire" => (budget <= SampleLockTimeout
                             /\ budget < TeardownLockTimeout)
  /\ pc = "td_acquire" => (budget <= TeardownLockTimeout
                           /\ budget < EventLockTimeout)
  /\ epc = "ev_acquire" => ebudget <= EventLockTimeout

\* an event handler still waiting after more than teardown's whole timeout
C12_Witness ==
  /\ epc = "ev_acquire" /\ locked
  /\ ebudget > 0 /\ ebudget < EventLockTimeout - TeardownLockTimeout

\* C13: in a step where the read of some sensor failed, the batch is made
\* of the samples of the other sensors, the step does not end by raising,
\* and a batch for which the lock was taken is published whole in that
\* same step.
C13_SensorFailureIsolated ==
  /\ pc \in {"post_acquire", "post_publish", "post_release"} =>
       \E ok \in SUBSET SensorSet : samples = Collect(1, ok)
  /\ pc = "post_release" => sidx = Len(samples) + 1
  /\ (worker = "sensors" /\ pc = "step_failed") =>
       samples = Collect(1, SensorSet)

\* C14: once armed the stop flag stays armed whatever happens next (further
\* signals included), and a wait of the main thread that finds it armed,
\* the interval wait or the presence retry wait, lets no more time pass:
\* its next step is its return.
C14_StopSticky ==
  [][ /\ stop_looping => stop_looping'
      /\ (stop_looping /\ pc \in {"wait", "p_wait"}) =>
           \/ (pc' = pc /\ waitLeft' = waitLeft)
           \/ (pc = "wait" /\ pc' = "check")
           \/ (pc = "p_wait" /\ pc' = "p_detect") ]_vars

C14_Witness ==
  pc = "p_wait" /\ stop_looping /\ waitLeft > 0 /\ armedAt = "step"

\* C15: once the stop signal is armed run() eventually ends: it returns
\* with _teardown called, unless _setup or a step ended by raising, which
\* ends run() as well.  No acquire and no wait keeps it forever.
C15_RunEnds ==
  stop_looping ~> \/ pc = "done" /\ teardownCalls = 1
                  \/ pc \in {"setup_failed", "step_failed"}

\* the teardown gave up the lock at its deadline and run() returned
C15_Witness == pc = "done" /\ stop_looping /\ hist.tdTimedOut

\* C16: when a detection hands its result to _update_presence_status the
\* probe has been called exactly k times, k being the position of the
\* first positive result if there is one within max_attempts calls (the
\* person is then reported present) and max_attempts otherwise (reported
\* absent); before that no more than max_attempts calls were made and
\* none of them was positive.
C16_ProbeRounds ==
  LET n == Len(hist.probes)
      ups == {i \in 1..n : hist.probes[i]}
  IN /\ pc \in {"p_detect", "p_wait", "p_update"} => n = attempts
     /\ pc \in {"p_detect", "p_wait"} =>
          (ups = {} /\ n <= max_attempts /\ ~detected)
     /\ pc = "p_update" =>
          IF ups # {}
            THEN ups = {n} /\ n <= max_attempts /\ detected
            ELSE n = max_attempts /\ ~detected

\* a positive result at the last round allowed, after a negative one
C16_Witness ==
  /\ pc = "p_update" /\ detected
  /\ max_attempts = MaxAttempts /\ attempts = MaxAttempts
  /\ hist.probes[1] = FALSE /\ hist.lastProbe = "up"

\* C17 as stated: with notify_always false, when a tick yields for a
\* person the status the tick before yielded, exactly one of the two
\* ticks published for that person.
C17_AsClaimed ==
  [][ ( /\ pc = "p_update" /\ pc' # "p_update"
        /\ ~notify_always /\ stepsStarted >= 2
        /\ detected = persons_status[pidx] ) =>
      (hist.notified[pidx] = "none") # (hist'.notified[pidx] = "none") ]_vars

\* C17 amended: in that case the second tick publishes nothing for the
\* person, and the first published, if at all, that same status; of the
\* first two ticks the first published exactly when its status differed
\* from the initial one (absent).
C17_NoRepeat ==
  [][ ( /\ pc = "p_update" /\ pc' # "p_update"
        /\ ~notify_always /\ stepsStarted >= 2
        /\ detected = persons_status[pidx] ) =>
      /\ hist'.notified[pidx] = "none"
      /\ hist.notified[pidx] \in {"none", NotifyStatus(detected)}
      /\ stepsStarted = 2 => ((hist.notified[pidx] # "none") <=> detected)
    ]_vars

\* after two ticks that both found the last person present: the first
\* published, the second did not
C17_Witness ==
  /\ ~notify_always /\ stepsDone = 2 /\ pc = "wait"
  /\ persons_status[NumPersons] /\ hist.notified[NumPersons] = "none"

\* C18: a call of _update_presence_status publishes for its person one
\* message if the outcome differs from the stored status or notify_always
\* is set and none otherwise, the message says present exactly when the
\* outcome is present, and nothing is published for any other person.
C18_NotifyPolicy ==
  [][ (pc = "p_update" /\ pc' # "p_update") =>
      /\ hist'.notified[pidx] =
           IF notify_always \/ detected # persons_status[pidx]
             THEN (IF detected THEN "present" ELSE "absent")
             ELSE "none"
      /\ \A q \in Persons \ {pidx} : hist'.notified[q] = hist.notified[q]
    ]_vars

\* an absent published for a person who was present, without notify_always
C18_Witness ==
  /\ ~notify_always /\ stepsStarted = 2 /\ pc = "p_detect" /\ pidx = 2
  /\ hist.notified[1] = "absent" /\ ~persons_status[1]

\* C19: a probe that fails counts as a negative round: it uses up one
\* attempt like any other round, is followed by the retry wait and not by
\* a result of present, and never ends the presence worker's step by an
\* exception.
C19_ProbeErrorIsNegative ==
  worker = "presence" =>
    /\ pc # "step_failed"
    /\ hist.lastProbe \in {"error", "nohost"} =>
         /\ pc \in {"p_wait", "p_detect", "p_update"}
         /\ ~detected /\ hist.probes[Len(hist.probes)] = FALSE
         /\ attempts = Len(hist.probes) /\ attempts <= max_attempts

\* C20: whatever start() and stop() calls are made, the connects that
\* succeeded and the disconnects asked of the broker library alternate,
\* beginning with a connect, and the client is connected exactly after a
\* connect: a start() on a connected client and a stop() on a
\* disconnected one ask nothing of the broker and change nothing.  (A
\* connect that raised leaves the client disconnected and is not counted.)
C20_StartStopIdempotent ==
  LET done == SelectSeq(hist.ops, LAMBDA o : o # "connect_failed")
  IN /\ \A i \in 1..Len(done) :
          done[i] = IF i % 2 = 1 THEN "connect" ELSE "disconnect"
     /\ connected <=> (Len(done) % 2 = 1)
     /\ Len(hist.ops) <= Len(hist.calls)

\* start, start, stop, stop: one connect and one disconnect
C20_Witness ==
  /\ hist.calls = <<"start", "start", "stop", "stop">>
  /\ hist.ops = <<"connect", "disconnect">>

\* C21: publish is fire-and-forget: a publish() call whose message the
\* broker library could not send returns like one whose message was sent:
\* no call ends by raising, and the caller goes on to make its next calls.
C21_FireAndForget ==
  \A i \in 1..Len(hist.pubs) : hist.pubs[i] \in {"sent", "failed"}

\* a publish made before start() failed, and the same caller then started
\* the client and published
C21_Witness ==
  /\ hist.pubs = <<"failed", "sent">>
  /\ hist.calls = <<"start">>
  /\ connected

\* C22: an unregister of a topic that no entry of _callbacks was registered
\* with is a no-op: it raises nothing and leaves _callbacks as it found it.
C22_UnregisterUnknownIsNoOp ==
  (/\ hist.call.op = "unregister"
   /\ \A i \in 1..Len(hist.call.before) :
        hist.call.before[i].topic # hist.call.topic)
  => (~hist.call.raised /\ callbacks = hist.call.before)

\* C23: register(p, h) followed at once by unregister(p) leaves _callbacks
\* exactly as the register call found it, whatever it held then, an entry
\* registered with the same p included; and the unregister raises nothing.
C23_RegisterThenUnregisterRestores ==
  [][(/\ hist.call.op = "register"
      /\ hist'.call.op = "unregister"
      /\ hist'.call.topic = hist.call.topic)
     => (callbacks' = hist.call.before /\ ~hist'.call.raised)]_vars

\* C24: for a message, on_messagge calls the callback of every entry whose
\* topic matches the message topic, once each, in the order of the entries,
\* and calls no callback of an entry whose topic does not match.  A topic
\* matches as a broker's filter does: '+' stands for one level, a final '#'
\* for any number of levels, every other level for itself.  (Level k of a
\* topic of the model is its character 2k-1.)
C24_DispatchMatchingInOrder ==
  LET NumLevels(s) == (Len(s) + 1) \div 2
      Level(s, k) == s[2 * k - 1]
      Legal(f) == \A k \in 1..(NumLevels(f) - 1) : Level(f, k) # "#"
      Fits(f, t, n) == \A k \in 1..n : Level(f, k) \in {"+", Level(t, k)}
      FilterMatches(f, t) ==
        IF Level(f, NumLevels(f)) = "#"
          THEN /\ NumLevels(t) >= NumLevels(f) - 1
               /\ Fits(f, t, NumLevels(f) - 1)
          ELSE /\ NumLevels(t) = NumLevels(f)
               /\ Fits(f, t, NumLevels(f))
      due == SelectSeq(hist.call.before,
                       LAMBDA e : FilterMatches(e.topic, hist.call.topic))
  IN (/\ hist.call.op = "on_messagge"
      /\ \A i \in 1..Len(hist.call.before) : Legal(hist.call.before[i].topic))
     => hist.call.invoked = [i \in 1..Len(due) |-> due[i].callback]

\* C25: a topic whose wildcards are '+' levels matches a message topic
\* exactly when both have the same number of levels and every level of the
\* topic is '+' or equal to the level of the message topic at its place: a
\* '+' stands for exactly one level.
C25_PlusIsOneLevel ==
  LET NumLevels(s) == (Len(s) + 1) \div 2
      Level(s, k) == s[2 * k - 1]
  IN (/\ matched # "unset"
      /\ \E k \in 1..NumLevels(topic) : Level(topic, k) = "+"
      /\ \A k \in 1..NumLevels(topic) : Level(topic, k) # "#")
     => (matched = "match" <=>
           /\ NumLevels(message) = NumLevels(topic)
           /\ \A k \in 1..NumLevels(topic) :
                Level(topic, k) \in {"+", Level(message, k)})

\* C26: a topic without wildcards matches the identical message topic and
\* no other.
C26_LiteralIsIdentity ==
  (/\ matched # "unset"
   /\ \A i \in 1..Len(topic) : topic[i] \notin Wildcards)
  => (matched = "match" <=> message = topic)

\* C27: a topic made of literal levels and a final '#' matches a message
\* topic exactly when the message topic starts with those literal levels,
\* with zero or more levels after them; '#' alone matches every topic.
C27_HashIsAnyTail ==
  LET NumLevels(s) == (Len(s) + 1) \div 2
      Level(s, k) == s[2 * k - 1]
      n == NumLevels(topic)
  IN (/\ matched # "unset"
      /\ Level(topic, n) = "#"
      /\ \A k \in 1..(n - 1) : Level(topic, k) \in Letters)
     => (matched = "match" <=>
           /\ NumLevels(message) >= n - 1
           /\ \A k \in 1..(n - 1) : Level(topic, k) = Level(message, k))

\* C28: when _setup fails (connect raises) the failure leaves run(): run()
\* has ended, no statement of it runs any more, no step was started, no
\* teardown was made, and _setup is never called a second time.
C28_SetupFailureIsFatal ==
  /\ setupCalls <= 1
  /\ pc = "setup_failed" =>
       /\ setupCalls = 1
       /\ stepsStarted = 0 /\ stepsDone = 0 /\ teardownCalls = 0
       /\ ~connected /\ registered = {}
       /\ ~ENABLED MainStep

\* a sensors process whose connect raised, with a stop signal that came
\* before
C28_Witness ==
  pc = "setup_failed" /\ worker = "sensors" /\ stop_looping

\* C29: a channel has an edge callback only while the broker client is
\* connected: _setup connects before it registers the first callback and
\* _teardown removes the last callback before it disconnects.
C29_CallbacksOnlyWhileConnected ==
  /\ registered # {} => connected
  /\ pc = "setup_gpio" => connected
  /\ (worker = "sensors" /\ pc = "td_stop") => registered = {}

\* _teardown has removed every callback and has not disconnected yet
C29_Witness ==
  /\ worker = "sensors" /\ pc = "td_stop"
  /\ registered = {} /\ connected /\ stepsDone >= 1

\* C30: within one _detect_person_presence the retry wait is made only
\* between two probes: whenever the wait is running the last probe was
\* negative and another attempt is left, so there is no wait after a
\* positive probe and none after the max_attempts-th negative one.
C30_WaitOnlyBetweenRounds ==
  pc = "p_wait" =>
    /\ ~detected
    /\ hist.probes # <<>> /\ ~hist.probes[Len(hist.probes)]
    /\ attempts < max_attempts

\* C31: _persons_status has one entry per person of _persons_list from
\* construction on, every entry absent before the first step; a call of
\* _update_presence_status sets its person's entry to the result of that
\* person's detection (present exactly when the last probe found the
\* address up) and leaves every other entry as it was; nothing else changes
\* any entry.
C31_StatusIsOutcome ==
  [][/\ DOMAIN persons_status = Persons
     /\ DOMAIN persons_status' = Persons
     /\ stepsStarted = 0 => \A p \in Persons : ~persons_status[p]
     /\ IF pc = "p_update" /\ pc' # "p_update"
          THEN /\ persons_status'[pidx] = (hist.lastProbe = "up")
               /\ \A q \in Persons \ {pidx} :
                    persons_status'[q] = persons_status[q]
          ELSE persons_status' = persons_status]_vars

\* the last step of the run has ended with the first person found present
\* and the second absent
C31_Witness ==
  /\ pc = "wait" /\ stepsDone = MaxTicks
  /\ persons_status[1] /\ ~persons_status[2]
  /\ hist.notified[1] = "present"

\* C32: the lock taken by _post_samples or by _post_event is given back on
\* every exit of the operation, the exit by an exception of a publish call
\* included: the lock is held by the main thread only inside the publish
\* section of _post_samples (or from _teardown's acquire on), and by the
\* callback thread only inside the publish section of _post_event.
C32_LockReleasedOnExit ==
  /\ (locked /\ holder = "gpio") => epc \in GpioCS
  /\ (locked /\ holder = "loop") =>
       pc \in LoopCS \cup {"td_unregister", "td_stop", "done"}

\* C33: once the stop signal is armed the loop condition lets no further
\* step in, so the only step that can begin after the signal is one the
\* condition had already let in.  That step is not skipped: its statements
\* run (to the wait, or to an exception of its own); the wait that follows
\* returns without a second passing, and from the loop condition run() goes
\* to the teardown.
C33_OneStepAfterStop ==
  [][stop_looping =>
       /\ stepsStarted' = stepsStarted
       /\ pc \in StepPcs => pc' \in StepPcs \cup {"wait", "step_failed"}
       /\ pc = "wait" => \/ (pc' = "wait" /\ waitLeft' = waitLeft)
                         \/ (pc' = "check" /\ stepsDone = stepsStarted)
       /\ pc = "check" => (pc' = "check" \/ (pc' = AfterLoop
                                             /\ teardownCalls' = 1))]_vars

\* the signal came after the loop condition let the second step in and
\* before the first statement of that step
C33_Witness ==
  /\ worker = "sensors" /\ pc = "sample" /\ samples = <<>>
  /\ stop_looping /\ armedAt = "step" /\ stepsStarted = 2

\* C34: a stop signal armed during a presence step cuts nothing of the step
\* short: a retry wait returns without a second passing, a detection ends
\* only on a positive probe or after max_attempts probes, the persons are
\* gone through one by one to the last, and the teardown is entered only
\* from the loop condition, after the step has ended.
C34_TickNotCutShort ==
  [][(worker = "presence" /\ stop_looping) =>
       /\ pc = "p_detect" =>
            /\ pc' \in {"p_detect", "p_wait", "p_update", "step_failed"}
            /\ pc' = "p_update" => (detected' \/ attempts' = max_attempts)
            /\ pc' = "p_wait" => attempts' = attempts + 1
       /\ pc = "p_wait" => \/ (pc' = "p_wait" /\ waitLeft' = waitLeft)
                           \/ (pc' = "p_detect" /\ attempts' = attempts)
       /\ pc = "p_update" =>
            \/ pc' = "p_update"
            \/ (pidx < NumPersons /\ pc' = "p_detect"
                 /\ pidx' = pidx + 1 /\ attempts' = 0)
            \/ (pidx = NumPersons /\ pc' = "wait")
       /\ pc' \in TeardownPcs \cup {"done"} =>
            /\ pc \in {"check", "done"} \cup TeardownPcs
            /\ stepsDone = stepsStarted]_vars

\* the signal is armed, it came during a step, and the last person is
\* about to get the last probe after a first negative one
C34_Witness ==
  /\ worker = "presence" /\ pc = "p_detect"
  /\ stop_looping /\ armedAt = "step"
  /\ pidx = NumPersons /\ attempts = 1 /\ max_attempts = MaxAttempts

\* C35: whatever the list of topics and actions, one with the same topic
\* twice included, a stop_listening() that finds the manager listening
\* returns with _listening False, no callback left and the client
\* disconnected; and a start_listening() that finds it listening, like a
\* stop_listening() that finds it not listening, asks nothing of the broker
\* library.
C35_StartStopListening ==
  /\ (hist.ev.op = "stop_listening" /\ hist.ev.was) =>
       /\ ~hist.ev.raised
       /\ ~listening /\ callbacks = <<>> /\ ~connected
  /\ (hist.ev.op = "start_listening" /\ hist.ev.was) => hist.ev.ops = <<>>
  /\ (hist.ev.op = "stop_listening" /\ ~hist.ev.was) => hist.ev.ops = <<>>
====
